---- MODULE Spec2Model ----
(***************************************************************************)
(* The usePosts hook of src/project/src/hooks/usePosts.ts: the feed state  *)
(* of one mounted hook (posts, loading, error, familyId), the asynchronous *)
(* runs of fetchPosts, toggleFavorite and createPost with one step per     *)
(* await, and the backend tables they read and write.                      *)
(***************************************************************************)
EXTENDS Integers, Sequences, FiniteSets, TLC

\* ---------------------------------------------------------------- bounds
MaxPosts == 3          \* post ids the backend can hand out
MaxLimit == 2          \* largest slideshow_photo_limit stored for a family
MaxHyd == 2            \* fetchPosts runs that can be in flight together
MaxTog == 1            \* toggleFavorite calls that can be in flight together
MaxNow == 3            \* last instant of the clock (in half days)
MaxStreak == 1         \* largest streak_count stored before the first call
MaxCalls == 4          \* invocations of the hook's operations in one behaviour
MaxReactions == 3      \* most reaction rows of one post

\* ------------------------------------------------------ program constants
DefaultPhotoLimit == 30     \* familyData.slideshow_photo_limit || 30
HalfDaysPerDay == 2         \* granularity of the clock: 1000*60*60*24 ms is 2 units

Families == {"A", "B"}
Null == "null"
NoError == "null"
NoDate == -1                \* users.last_post_date is null
PostIds == 1..MaxPosts
Hyd == 1..MaxHyd
Tog == 1..MaxTog
FamilyIdLists == {{"A"}, {"B"}}
ActingUser == "u"           \* user.id of the session, as getUser() returns it
Users == {ActingUser, "v"}  \* reactions.user_id
ReactionTypes == {"LIKE", "COMMENT", "SLIDESHOW"}

VARIABLES
  familyId,     \* the hook's familyId prop
  posts,        \* useState<Post[]>: the published feed
  loading,      \* useState(true)
  error,        \* useState<string | null>(null)
  subs,         \* families whose change callbacks are registered
  hyd,          \* the fetchPosts runs, one record per slot
  tog,          \* the toggleFavorite calls, one record per slot
  cp,           \* the createPost call
  dbPosts,      \* backend tables posts + post_families: id -> row
  nextId,       \* the next id the posts table hands out
  dbLimit,      \* backend table families: slideshow_photo_limit (0 = absent)
  dbUser,       \* backend table users: the acting user's row
  now,          \* the clock, in half days
  calls,        \* how many times the hook's operations have been invoked
  readOrder     \* history: which runs in flight read the backend before which

vars == <<familyId, posts, loading, error, subs, hyd, tog, cp,
          dbPosts, nextId, dbLimit, dbUser, now, calls, readOrder>>

\* ---------------------------------------------------------------- helpers
Min(S) == CHOOSE x \in S : \A y \in S : x <= y

Ids(s) == {s[i].id : i \in 1..Len(s)}

IdleHyd == [pc |-> "idle", fam |-> Null, photoLimit |-> 0, data |-> <<>>,
            failed |-> FALSE, toDelete |-> <<>>, remaining |-> <<>>]
\* before: the runs in flight for the same family that had read the posts when
\* this run read them; overtaken: a run that read later has published
IdleOrder == [before |-> {}, overtaken |-> FALSE]
IdleTog == [pc |-> "idle", postId |-> 0, value |-> FALSE, failed |-> FALSE,
            res |-> "none"]
IdleCp == [pc |-> "idle", familyIds |-> {}, newStreakCount |-> 0,
           today |-> 0, newPost |-> 0, writes |-> {}, res |-> "none"]

\* ----------------------------------------------------------- the backend
\* .order('timestamp', { ascending: false })
DescByTimestamp(s) == \A i \in 1..(Len(s) - 1) : s[i].timestamp >= s[i + 1].timestamp

PostRow(p) == [id |-> p, is_favorite |-> dbPosts[p].is_favorite,
               timestamp |-> dbPosts[p].timestamp, reactions |-> dbPosts[p].reactions]

\* from('posts').select(post_families!inner).eq('post_families.family_id', f):
\* the rows linked to family f, newest first; rows of one instant in any order
ListPosts(f) ==
  LET ids == {p \in DOMAIN dbPosts : f \in dbPosts[p].families}
      rows == {PostRow(p) : p \in ids}
  IN {s \in [1..Cardinality(ids) -> rows] :
        /\ \A i, j \in 1..Cardinality(ids) : i # j => s[i] # s[j]
        /\ DescByTimestamp(s)}

\* from('posts').delete().eq('id', p)
DeleteRow(p) == [q \in (DOMAIN dbPosts) \ {p} |-> dbPosts[q]]

\* from('posts').update({ is_favorite: v }).eq('id', p): no row, no change
UpdateFavorite(p, v) ==
  [q \in DOMAIN dbPosts |-> IF q = p THEN [dbPosts[q] EXCEPT !.is_favorite = v]
                            ELSE dbPosts[q]]

\* --------------------------------------------------- fetchPosts, the pure part
\* reactions.filter((r) => r.reaction_type === type)
ReactionsOfType(reactions, type) == SelectSeq(reactions, LAMBDA r : r.reaction_type = type)

\* likes.some((r) => r.user_id === user.id)
SomeBy(likes, userId) == \E k \in 1..Len(likes) : likes[k].user_id = userId

\* a user who liked twice counts once
processedPostsLikers(data, currentFamilyId) ==
  [i \in 1..Len(data) |->
     LET reactions == data[i].reactions
         likes == ReactionsOfType(reactions, "LIKE")
         comments == ReactionsOfType(reactions, "COMMENT")
     IN [id |-> data[i].id, is_favorite |-> data[i].is_favorite,
         timestamp |-> data[i].timestamp, family_id |-> currentFamilyId,
         reactions |-> reactions,
         likes_count |-> Cardinality({likes[k].user_id : k \in 1..Len(likes)}),
         comments_count |-> Len(comments),
         user_has_liked |-> SomeBy(likes, ActingUser),
         elderly_reactions |-> ReactionsOfType(reactions, "SLIDESHOW")]]

\* data?.map(post => ({ ...post, family_id: currentFamilyId, reactions,
\* likes_count, comments_count, user_has_liked, elderly_reactions }))
processedPosts(data, currentFamilyId) ==
  [i \in 1..Len(data) |->
     LET reactions == data[i].reactions
         likes == ReactionsOfType(reactions, "LIKE")
         comments == ReactionsOfType(reactions, "COMMENT")
     IN [id |-> data[i].id, is_favorite |-> data[i].is_favorite,
         timestamp |-> data[i].timestamp, family_id |-> currentFamilyId,
         reactions |-> reactions,
         likes_count |-> Len(likes),
         comments_count |-> Len(comments),
         user_has_liked |-> SomeBy(likes, ActingUser),
         elderly_reactions |-> ReactionsOfType(reactions, "SLIDESHOW")]]

RECURSIVE InsertByTimestamp(_, _)
\* x goes behind every element that is not newer than it (Array.sort is stable)
InsertByTimestamp(x, s) ==
  IF s = <<>> THEN <<x>>
  ELSE IF x.timestamp < Head(s).timestamp THEN <<x>> \o s
       ELSE <<Head(s)>> \o InsertByTimestamp(x, Tail(s))

RECURSIVE SortByTimestamp(_)
\* .sort((a, b) => new Date(a.timestamp).getTime() - new Date(b.timestamp).getTime())
SortByTimestamp(s) ==
  IF s = <<>> THEN <<>>
  ELSE InsertByTimestamp(s[Len(s)], SortByTimestamp(SubSeq(s, 1, Len(s) - 1)))

\* the posts not favorited in the fetched order, newest first: the sort is lost
nonFavoritePostsUnsorted(pp) == SelectSeq(pp, LAMBDA post : ~post.is_favorite)

\* processedPosts.filter(post => !post.is_favorite).sort(...)
nonFavoritePosts(pp) == SortByTimestamp(SelectSeq(pp, LAMBDA post : ~post.is_favorite))

\* processedPosts.length - photoLimit
postsToRemove(pp, photoLimit) == Len(pp) - photoLimit

\* one post too few is sliced off
postsToDeleteOneShort(pp, photoLimit) ==
  IF Len(pp) > photoLimit /\ Len(nonFavoritePosts(pp)) >= postsToRemove(pp, photoLimit)
  THEN SubSeq(nonFavoritePosts(pp), 1, postsToRemove(pp, photoLimit) - 1)
  ELSE <<>>

\* the posts the run deletes: nonFavoritePosts.slice(0, postsToRemove) when the
\* feed is over the limit and enough posts are not favorited, none otherwise
postsToDelete(pp, photoLimit) ==
  IF Len(pp) > photoLimit /\ Len(nonFavoritePosts(pp)) >= postsToRemove(pp, photoLimit)
  THEN SubSeq(nonFavoritePosts(pp), 1, postsToRemove(pp, photoLimit))
  ELSE <<>>

\* the whole fetched feed is published although posts of it are deleted
remainingPostsAll(pp, del) == pp

\* processedPosts.filter(post => !postsToDelete.some(p => p.id === post.id))
remainingPosts(pp, del) == SelectSeq(pp, LAMBDA post : post.id \notin Ids(del))

\* familyData.slideshow_photo_limit || 30
photoLimitOf(slideshow_photo_limit) ==
  IF slideshow_photo_limit = 0 THEN DefaultPhotoLimit ELSE slideshow_photo_limit

\* ------------------------------------------------------------------ Init
\* the hook as usePosts constructs it, nothing in flight
InitHook ==
  /\ familyId = Null
  /\ posts = <<>>
  /\ loading = TRUE
  /\ error = NoError
  /\ subs = {}
  /\ hyd = [h \in Hyd |-> IdleHyd]
  /\ tog = [t \in Tog |-> IdleTog]
  /\ cp = IdleCp
  /\ calls = 0
  /\ readOrder = [h \in Hyd |-> IdleOrder]

\* the backend holds posts 1..MaxPosts, created in this order at distinct instants:
\* post 1 is linked to family B and no favorite, the others are linked to family
\* A and any of them is a favorite; family A has a limit, family B has none
Init ==
  /\ InitHook
  /\ dbPosts \in [PostIds -> [is_favorite : BOOLEAN, timestamp : PostIds,
                              families : {{"A"}, {"B"}}, streak_count : {1},
                              reactions : {<<>>}]]
  /\ \A p \in PostIds : /\ dbPosts[p].timestamp = p
                        /\ dbPosts[p].families = IF p = 1 THEN {"B"} ELSE {"A"}
  /\ ~dbPosts[1].is_favorite
  /\ nextId = MaxPosts + 1
  /\ dbLimit \in [Families -> 0..MaxLimit]
  /\ dbLimit["A"] > 0 /\ dbLimit["B"] = 0
  /\ dbUser = [streak_count |-> 0, last_post_date |-> NoDate]
  /\ now = MaxPosts

\* ------------------------------------------------------------ fetchPosts
FreeHyd == {h \in Hyd : hyd[h].pc = "idle"}

\* fetchPosts(f) up to its first await: supabase.auth.getUser() is in flight
StartFetch(f) ==
  /\ FreeHyd # {}
  /\ hyd' = [hyd EXCEPT ![Min(FreeHyd)] = [IdleHyd EXCEPT !.pc = "getUser", !.fam = f]]

\* run h ends: it is no longer in flight for the others, and if it has published,
\* the runs that read before it are overtaken
RunLeaves(h, published) ==
  [g \in Hyd |->
     IF g = h THEN IdleOrder
     ELSE [before |-> readOrder[g].before \ {h},
           overtaken |-> readOrder[g].overtaken
                           \/ (published /\ g \in readOrder[h].before)]]

\* the runs in flight for the family of run h that hold the rows they read
ReadBefore(h) ==
  {g \in Hyd \ {h} : /\ hyd[g].pc \in {"postsDone", "deleting"}
                      /\ ~hyd[g].failed
                      /\ hyd[g].fam = hyd[h].fam}

\* the catch block also clears the feed
FetchFailsClearing(h, msg) ==
  /\ error' = msg
  /\ loading' = FALSE
  /\ hyd' = [hyd EXCEPT ![h] = IdleHyd]
  /\ readOrder' = RunLeaves(h, FALSE)
  /\ posts' = <<>>

\* catch (err) { setError(err instanceof Error ? err.message : 'Failed to load
\* posts') } finally { setLoading(false) }; msg stands for either string
FetchFails(h, msg) ==
  /\ error' = msg
  /\ loading' = FALSE
  /\ hyd' = [hyd EXCEPT ![h] = IdleHyd]
  /\ readOrder' = RunLeaves(h, FALSE)
  /\ UNCHANGED posts

\* the feed is published without the finally block: loading stays as it is
FetchPublishesLoading(h, feed) ==
  /\ posts' = feed
  /\ hyd' = [hyd EXCEPT ![h] = IdleHyd]
  /\ readOrder' = RunLeaves(h, TRUE)
  /\ UNCHANGED <<loading, error>>

\* setPosts(feed) and finally { setLoading(false) }
FetchPublishes(h, feed) ==
  /\ posts' = feed
  /\ loading' = FALSE
  /\ hyd' = [hyd EXCEPT ![h] = IdleHyd]
  /\ readOrder' = RunLeaves(h, TRUE)
  /\ UNCHANGED error

\* one more invocation by the hook's user or by the change channel
Invoke == calls < MaxCalls /\ calls' = calls + 1

\* useEffect on [familyId]: the prop changes; a family is fetched and subscribed
Load(f) ==
  /\ Invoke
  /\ f # familyId
  /\ familyId' = f
  /\ IF f # Null
     THEN StartFetch(f) /\ subs' = subs \cup {f}
     ELSE UNCHANGED <<hyd, subs>>
  /\ UNCHANGED <<posts, loading, error, tog, cp, dbPosts, nextId, dbLimit, dbUser, now,
                 readOrder>>

\* refreshPosts: () => familyId && fetchPosts(familyId)
Refresh ==
  /\ Invoke
  /\ familyId # Null
  /\ StartFetch(familyId)
  /\ UNCHANGED <<familyId, posts, loading, error, subs, tog, cp,
                 dbPosts, nextId, dbLimit, dbUser, now, readOrder>>

\* a postgres_changes callback of the channel subscribed for family f
Notify(f) ==
  /\ Invoke
  /\ f \in subs
  /\ StartFetch(f)
  /\ UNCHANGED <<familyId, posts, loading, error, subs, tog, cp,
                 dbPosts, nextId, dbLimit, dbUser, now, readOrder>>

\* getUser() returns: no user throws, else the families query is in flight
FetchGetUser(h) ==
  /\ hyd[h].pc = "getUser"
  /\ \E user \in {Null, ActingUser} :
       IF user = Null
       THEN FetchFails(h, "Not authenticated")
       ELSE /\ hyd' = [hyd EXCEPT ![h].pc = "settings"]
            /\ UNCHANGED <<posts, loading, error, readOrder>>
  /\ UNCHANGED <<familyId, subs, tog, cp, dbPosts, nextId, dbLimit, dbUser, now, calls>>

\* the families query returns: familyError throws, else the posts query is in flight
FetchSettings(h) ==
  /\ hyd[h].pc = "settings"
  /\ \E familyError \in BOOLEAN :
       IF familyError
       THEN FetchFails(h, "Failed to load posts")
       ELSE /\ hyd' = [hyd EXCEPT ![h].pc = "posts",
                                  ![h].photoLimit = photoLimitOf(dbLimit[hyd[h].fam])]
            /\ UNCHANGED <<posts, loading, error, readOrder>>
  /\ UNCHANGED <<familyId, subs, tog, cp, dbPosts, nextId, dbLimit, dbUser, now, calls>>

\* the backend runs the posts query: an error, or the rows as they are now
FetchRead(h) ==
  /\ hyd[h].pc = "posts"
  /\ \/ /\ hyd' = [hyd EXCEPT ![h].pc = "postsDone", ![h].failed = TRUE]
        /\ UNCHANGED readOrder
     \/ \E data \in ListPosts(hyd[h].fam) :
          /\ hyd' = [hyd EXCEPT ![h].pc = "postsDone", ![h].data = data]
          /\ readOrder' = [readOrder EXCEPT ![h].before = ReadBefore(h)]
  /\ UNCHANGED <<familyId, posts, loading, error, subs, tog, cp,
                 dbPosts, nextId, dbLimit, dbUser, now, calls>>

\* the posts query returns: error throws; else the feed is processed, and either
\* published at once or the first deletion is in flight
FetchProcess(h) ==
  /\ hyd[h].pc = "postsDone"
  /\ IF hyd[h].failed
     THEN FetchFails(h, "Failed to load posts")
     ELSE LET pp == processedPosts(hyd[h].data, hyd[h].fam)
              del == postsToDelete(pp, hyd[h].photoLimit)
          IN IF del = <<>>
             THEN FetchPublishes(h, pp)
             ELSE /\ hyd' = [hyd EXCEPT ![h].pc = "deleting", ![h].data = <<>>,
                                        ![h].toDelete = del,
                                        ![h].remaining = remainingPosts(pp, del)]
                  /\ UNCHANGED <<posts, loading, error, readOrder>>
  /\ UNCHANGED <<familyId, subs, tog, cp, dbPosts, nextId, dbLimit, dbUser, now, calls>>

\* the loop ends after its first deletion
DeletionsLeftNone(toDelete) == <<>>

\* for (const post of postsToDelete): what is left to delete after one iteration
DeletionsLeft(toDelete) == Tail(toDelete)

\* the result of a deletion is looked at and its error thrown
DeleteErrorThrown == "thrown"

\* await supabase.from('posts').delete().eq('id', post.id): the result is dropped
DeleteErrorOutcome == "ignored"

\* a deletion returns: the next one is in flight, or the remaining posts are
\* published
FetchDelete(h) ==
  /\ hyd[h].pc = "deleting"
  /\ \E deleteError \in BOOLEAN :
       /\ dbPosts' = IF deleteError THEN dbPosts
                     ELSE DeleteRow(Head(hyd[h].toDelete).id)
       /\ IF deleteError /\ DeleteErrorOutcome = "thrown"
          THEN FetchFails(h, "Failed to load posts")
          ELSE IF DeletionsLeft(hyd[h].toDelete) # <<>>
               THEN /\ hyd' = [hyd EXCEPT ![h].toDelete = DeletionsLeft(hyd[h].toDelete)]
                    /\ UNCHANGED <<posts, loading, error, readOrder>>
               ELSE FetchPublishes(h, hyd[h].remaining)
  /\ UNCHANGED <<familyId, subs, tog, cp, nextId, dbLimit, dbUser, now, calls>>

fetchPosts(h) ==
  \/ FetchGetUser(h)
  \/ FetchSettings(h)
  \/ FetchRead(h)
  \/ FetchProcess(h)
  \/ FetchDelete(h)

\* -------------------------------------------------------- toggleFavorite
FreeTog == {t \in Tog : tog[t].pc = "idle"}

\* posts.find(p => p.id === postId): the matches, first one first
FindPost(postId) == SelectSeq(posts, LAMBDA p : p.id = postId)

\* the flipped post is moved to the head of the feed
FlipFavoriteToFront(prevPosts, postId) ==
  [i \in 1..Len(SelectSeq(prevPosts, LAMBDA p : p.id = postId)) |->
     [prevPosts[CHOOSE k \in 1..Len(prevPosts) : prevPosts[k].id = postId]
        EXCEPT !.is_favorite = ~@]]
  \o SelectSeq(prevPosts, LAMBDA p : p.id # postId)

\* prevPosts.map(p => p.id === postId ? { ...p, is_favorite: !p.is_favorite } : p)
FlipFavorite(prevPosts, postId) ==
  [i \in 1..Len(prevPosts) |->
     IF prevPosts[i].id = postId
     THEN [prevPosts[i] EXCEPT !.is_favorite = ~prevPosts[i].is_favorite]
     ELSE prevPosts[i]]

\* the flip is applied at once, before the write returns
ToggleLocalOptimistic(prevPosts, postId) == FlipFavorite(prevPosts, postId)

\* what toggleFavorite does to the local feed before its backend write returns
ToggleLocalBeforeWrite(prevPosts, postId) == prevPosts

\* the catch block flips the post back although it was never flipped
ToggleLocalReverting(prevPosts, postId) == FlipFavorite(prevPosts, postId)

\* what toggleFavorite does to the local feed when its backend write failed
ToggleLocalOnError(prevPosts, postId) == prevPosts

\* toggleFavorite(postId) up to its await: an unknown post throws, else the
\* update of is_favorite to !post.is_favorite is in flight
ToggleCall(postId) ==
  /\ Invoke
  /\ FreeTog # {}
  /\ LET t == Min(FreeTog)
         found == FindPost(postId)
         post == Head(found)
     IN IF found = <<>>
        THEN /\ tog' = [tog EXCEPT ![t] = [IdleTog EXCEPT !.res = "err"]]
             /\ UNCHANGED posts
        ELSE /\ tog' = [tog EXCEPT ![t] = [IdleTog EXCEPT !.pc = "update",
                                             !.postId = postId,
                                             !.value = ~post.is_favorite]]
             /\ posts' = ToggleLocalBeforeWrite(posts, postId)
  /\ UNCHANGED <<familyId, loading, error, subs, hyd, cp,
                 dbPosts, nextId, dbLimit, dbUser, now, readOrder>>

\* the backend runs the update: an error, or the row (if it is there) is written
ToggleWrite(t) ==
  /\ tog[t].pc = "update"
  /\ \/ /\ tog' = [tog EXCEPT ![t].pc = "updateDone", ![t].failed = TRUE]
        /\ UNCHANGED dbPosts
     \/ /\ tog' = [tog EXCEPT ![t].pc = "updateDone"]
        /\ dbPosts' = UpdateFavorite(tog[t].postId, tog[t].value)
  /\ UNCHANGED <<familyId, posts, loading, error, subs, hyd, cp,
                 nextId, dbLimit, dbUser, now, calls, readOrder>>

\* the update returns: error throws, else setPosts flips the post in the feed
ToggleReturn(t) ==
  /\ tog[t].pc = "updateDone"
  /\ IF tog[t].failed
     THEN /\ tog' = [tog EXCEPT ![t] = [IdleTog EXCEPT !.res = "err"]]
          /\ posts' = ToggleLocalOnError(posts, tog[t].postId)
     ELSE /\ tog' = [tog EXCEPT ![t] = [IdleTog EXCEPT !.res = "ok"]]
          /\ posts' = FlipFavorite(posts, tog[t].postId)
  /\ UNCHANGED <<familyId, loading, error, subs, hyd, cp,
                 dbPosts, nextId, dbLimit, dbUser, now, calls, readOrder>>

toggleFavorite(t) == ToggleWrite(t) \/ ToggleReturn(t)

\* ------------------------------------------------------------ createPost
\* new Date(t).toISOString().split('T')[0]: the calendar day of an instant
DateOf(t) == t \div HalfDaysPerDay

\* new Date(day).getTime(): the instant a calendar day starts
TimeOfDate(day) == day * HalfDaysPerDay

\* Math.floor((new Date(today).getTime() - new Date(lastPostDate).getTime()) / day)
daysSinceLastPost(lastPostDate, today) ==
  (TimeOfDate(today) - TimeOfDate(lastPostDate)) \div HalfDaysPerDay

\* the gap is taken as a distance: a last post dated tomorrow extends the streak
newStreakCountAbsGap(last_post_date, streak_count, today) ==
  IF last_post_date # NoDate
  THEN LET days == daysSinceLastPost(DateOf(last_post_date), today)
       IN IF days = 1 \/ days = -1 THEN streak_count + 1
          ELSE IF days = 0 THEN streak_count
          ELSE 1
  ELSE 1

\* the streak of the new post, from the profile row and today
newStreakCount(last_post_date, streak_count, today) ==
  IF last_post_date # NoDate
  THEN LET days == daysSinceLastPost(DateOf(last_post_date), today)
       IN IF days = 1 THEN streak_count + 1
          ELSE IF days = 0 THEN streak_count
          ELSE 1
  ELSE 1

\* catch (err) { throw new Error('Failed to create post') }
CreateFails == cp' = [IdleCp EXCEPT !.res = "err", !.writes = cp.writes]

\* createPost(post, familyIds) up to its first await: getUser() is in flight
CreateCall(familyIds) ==
  /\ Invoke
  /\ cp.pc = "idle"
  /\ nextId <= MaxPosts
  /\ cp' = [IdleCp EXCEPT !.pc = "getUser", !.familyIds = familyIds]
  /\ UNCHANGED <<familyId, posts, loading, error, subs, hyd, tog,
                 dbPosts, nextId, dbLimit, dbUser, now, readOrder>>

\* getUser() returns: no user throws, else the profile query is in flight
CreateGetUser ==
  /\ cp.pc = "getUser"
  /\ \E user \in {Null, ActingUser} :
       IF user = Null THEN CreateFails ELSE cp' = [cp EXCEPT !.pc = "profile"]
  /\ UNCHANGED <<familyId, posts, loading, error, subs, hyd, tog,
                 dbPosts, nextId, dbLimit, dbUser, now, calls, readOrder>>

\* the profile query returns: profileError throws, else the streak is computed
\* and the insert of the post is in flight
CreateProfile ==
  /\ cp.pc = "profile"
  /\ \E profileError \in BOOLEAN :
       IF profileError
       THEN CreateFails
       ELSE LET today == DateOf(now)
            IN cp' = [cp EXCEPT !.pc = "insertPost", !.today = today,
                        !.newStreakCount =
                           newStreakCount(dbUser.last_post_date, dbUser.streak_count, today)]
  /\ UNCHANGED <<familyId, posts, loading, error, subs, hyd, tog,
                 dbPosts, nextId, dbLimit, dbUser, now, calls, readOrder>>

\* the row from('posts').insert([...]) adds
InsertedPost(streak) ==
  [is_favorite |-> FALSE, timestamp |-> now, families |-> {}, streak_count |-> streak,
   reactions |-> <<>>]

\* the insert of the post returns: postError throws, else the insert of the
\* post_families rows is in flight
CreateInsertPost ==
  /\ cp.pc = "insertPost"
  /\ \E postError \in BOOLEAN :
       IF postError
       THEN CreateFails /\ UNCHANGED <<dbPosts, nextId>>
       ELSE /\ dbPosts' = [q \in (DOMAIN dbPosts) \cup {nextId} |->
                             IF q = nextId THEN InsertedPost(cp.newStreakCount)
                             ELSE dbPosts[q]]
            /\ nextId' = nextId + 1
            /\ cp' = [cp EXCEPT !.pc = "insertLinks", !.newPost = nextId,
                                !.writes = cp.writes \cup {"post"}]
  /\ UNCHANGED <<familyId, posts, loading, error, subs, hyd, tog, dbLimit, dbUser, now, calls, readOrder>>

\* the insert of the links returns: familyError throws, else the update of the
\* user's row is in flight
CreateInsertLinks ==
  /\ cp.pc = "insertLinks"
  /\ \E familyError \in BOOLEAN :
       IF familyError
       THEN CreateFails /\ UNCHANGED dbPosts
       ELSE /\ dbPosts' = [q \in DOMAIN dbPosts |->
                             IF q = cp.newPost
                             THEN [dbPosts[q] EXCEPT !.families = cp.familyIds]
                             ELSE dbPosts[q]]
            /\ cp' = [cp EXCEPT !.pc = "updateUser", !.writes = cp.writes \cup {"links"}]
  /\ UNCHANGED <<familyId, posts, loading, error, subs, hyd, tog,
                 nextId, dbLimit, dbUser, now, calls, readOrder>>

\* updateError is not looked at: the call returns newPost all the same
UpdateErrorSwallowed == "ok"

\* what a createPost call whose update of the user's row failed reports
UpdateErrorResult == "err"

\* the update of the user's row returns: updateError throws, else newPost is returned
CreateUpdateUser ==
  /\ cp.pc = "updateUser"
  /\ \E updateError \in BOOLEAN :
       IF updateError
       THEN cp' = [IdleCp EXCEPT !.res = UpdateErrorResult, !.writes = cp.writes]
            /\ UNCHANGED dbUser
       ELSE /\ dbUser' = [streak_count |-> cp.newStreakCount,
                          last_post_date |-> TimeOfDate(cp.today)]
            /\ cp' = [IdleCp EXCEPT !.res = "ok", !.writes = cp.writes \cup {"user"},
                                   !.newPost = cp.newPost]
  /\ UNCHANGED <<familyId, posts, loading, error, subs, hyd, tog,
                 dbPosts, nextId, dbLimit, now, calls, readOrder>>

createPost == CreateGetUser \/ CreateProfile \/ CreateInsertPost
              \/ CreateInsertLinks \/ CreateUpdateUser

\* time passes
Tick ==
  /\ now < MaxNow
  /\ now' = now + 1
  /\ UNCHANGED <<familyId, posts, loading, error, subs, hyd, tog, cp,
                 dbPosts, nextId, dbLimit, dbUser, calls, readOrder>>

\* ----------------------------------------------------------------- Next
\* the feed: loads, refreshes, change notifications, fetchPosts and toggleFavorite
Next ==
  \/ \E f \in Families \cup {Null} : Load(f)
  \/ Refresh
  \/ \E f \in Families : Notify(f)
  \/ \E h \in Hyd : fetchPosts(h)
  \/ \E postId \in PostIds : ToggleCall(postId)
  \/ \E t \in Tog : toggleFavorite(t)

Spec == Init /\ [][Next]_vars

\* no run of fetchPosts is in flight
NoRunInFlight == \A h \in Hyd : hyd[h].pc = "idle"

\* the feed with one hydration at a time: a load, a refresh or a change
\* notification comes only when no run of fetchPosts is in flight; toggleFavorite
\* calls come at any time
NextOneRun ==
  \/ \E f \in Families \cup {Null} : NoRunInFlight /\ Load(f)
  \/ NoRunInFlight /\ Refresh
  \/ \E f \in Families : NoRunInFlight /\ Notify(f)
  \/ \E h \in Hyd : fetchPosts(h)
  \/ \E postId \in PostIds : ToggleCall(postId)
  \/ \E t \in Tog : toggleFavorite(t)

SpecOneRun == Init /\ [][NextOneRun]_vars

\* createPost alone: the user's row and the clock are anything within the bounds
InitCreate ==
  /\ InitHook
  /\ dbPosts = << >>
  /\ nextId = 1
  /\ dbLimit = [f \in Families |-> 0]
  /\ dbUser \in [streak_count : 0..MaxStreak, last_post_date : {NoDate} \cup 0..MaxNow]
  /\ now \in 0..MaxNow

NextCreate ==
  \/ \E familyIds \in FamilyIdLists : CreateCall(familyIds)
  \/ createPost
  \/ Tick

SpecCreate == InitCreate /\ [][NextCreate]_vars

\* fetchPosts alone, on any feed: every post is linked to family A, posts may
\* share an instant, and the limit is anything within the bounds
InitRetention ==
  /\ InitHook
  /\ dbPosts \in [PostIds -> [is_favorite : BOOLEAN, timestamp : PostIds,
                              families : {{"A"}}, streak_count : {1},
                              reactions : {<<>>}]]
  /\ \A p, q \in PostIds : p <= q => dbPosts[p].timestamp <= dbPosts[q].timestamp
  /\ nextId = MaxPosts + 1
  /\ dbLimit \in [Families -> 0..MaxLimit]
  /\ dbLimit["B"] = 0
  /\ dbUser = [streak_count |-> 0, last_post_date |-> NoDate]
  /\ now = MaxPosts

NextRetention ==
  \/ Load("A")
  \/ \E h \in Hyd : fetchPosts(h)

SpecRetention == InitRetention /\ [][NextRetention]_vars

\* fetchPosts again and again for family A, one run after the other: every post
\* is linked to family A, at distinct instants, and nothing but the runs' own
\* deletions changes the backend
InitTwice ==
  /\ InitHook
  /\ dbPosts \in [PostIds -> [is_favorite : BOOLEAN, timestamp : PostIds,
                              families : {{"A"}}, streak_count : {1},
                              reactions : {<<>>}]]
  /\ \A p \in PostIds : dbPosts[p].timestamp = p
  /\ nextId = MaxPosts + 1
  /\ dbLimit \in [Families -> 0..MaxLimit]
  /\ dbLimit["B"] = 0
  /\ dbUser = [streak_count |-> 0, last_post_date |-> NoDate]
  /\ now = MaxPosts

NextTwice ==
  \/ NoRunInFlight /\ Load("A")
  \/ NoRunInFlight /\ Refresh
  \/ \E h \in Hyd : fetchPosts(h)

SpecTwice == InitTwice /\ [][NextTwice]_vars

\* the same, with every backend call returning in the end: a run that waits
\* for an answer gets it
SpecTwiceFair == SpecTwice /\ \A h \in Hyd : WF_vars(fetchPosts(h))

\* the reaction rows a post can have: up to MaxReactions rows, any type, any user
ReactionRows == [user_id : Users, reaction_type : ReactionTypes]

ReactionLists == UNION {[1..n -> ReactionRows] : n \in 0..MaxReactions}

\* fetchPosts alone, on posts with reactions: every post is linked to family A,
\* at distinct instants; the newest post has any reaction rows, the others none
InitAggregate ==
  /\ InitHook
  /\ dbPosts \in {[p \in PostIds |->
                     [is_favorite |-> FALSE, timestamp |-> p, families |-> {"A"},
                      streak_count |-> 1,
                      reactions |-> IF p = MaxPosts THEN rows ELSE <<>>]] :
                   rows \in ReactionLists}
  /\ nextId = MaxPosts + 1
  /\ dbLimit \in [Families -> 0..MaxLimit]
  /\ dbLimit["B"] = 0
  /\ dbUser = [streak_count |-> 0, last_post_date |-> NoDate]
  /\ now = MaxPosts

SpecAggregate == InitAggregate /\ [][NextRetention]_vars

\* run h of fetchPosts ends in this step
FetchCompletes(h) == hyd[h].pc # "idle" /\ hyd'[h].pc = "idle"

\* run h ends in its catch block
FetchThrows(h) ==
  FetchCompletes(h) /\ (hyd[h].pc \in {"getUser", "settings"} \/ hyd[h].failed)

\* run h ends with setPosts
FetchPublished(h) == FetchCompletes(h) /\ ~FetchThrows(h)

Favorites(feed) == {i \in 1..Len(feed) : feed[i].is_favorite}

\* the feed has at most limit entries, or its favorites alone exceed the limit
WithinLimit(feed, limit) ==
  Len(feed) <= limit \/ Cardinality(Favorites(feed)) > limit

\* ------------------------------------------------------------------- C1
\* C1 as stated: in every reachable state the published feed of a family has at
\* most slideshow_photo_limit entries, unless its favorited posts alone exceed
\* the limit.
C1_FeedAlwaysWithinLimit ==
  posts # <<>> => WithinLimit(posts, photoLimitOf(dbLimit[posts[1].family_id]))

\* C1 amended: every feed that a run of fetchPosts publishes has at most
\* photoLimit entries (the limit that run read), unless the favorited posts of
\* that feed alone exceed the limit.
C1_PublishedFeedWithinLimit ==
  [][\A h \in Hyd : FetchPublished(h) => WithinLimit(posts', hyd[h].photoLimit)]_vars

\* a run has evicted: the feed is published at exactly the limit and a post is
\* gone from the backend
C1_Witness ==
  /\ posts # <<>>
  /\ Len(posts) = photoLimitOf(dbLimit["A"])
  /\ posts[1].family_id = "A"
  /\ DOMAIN dbPosts # PostIds
  /\ \A h \in Hyd : hyd[h].pc = "idle"

\* ------------------------------------------------------------------- C2
\* C2: hydration never deletes a favorited post: a row that a deletion removes
\* is not favorited in the backend at the moment the deletion is applied.
C2_NoFavoriteDeleted ==
  [][\A p \in DOMAIN dbPosts :
       p \notin DOMAIN dbPosts' => ~dbPosts[p].is_favorite]_vars

\* ------------------------------------------------------------------- C3
NonFavoriteIds(data) == {data[i].id : i \in {j \in 1..Len(data) : ~data[j].is_favorite}}

TimestampOf(data, p) == (CHOOSE i \in 1..Len(data) : data[i].id = p)

\* run h decides in this step what to remove from the feed it fetched
FetchDecides(h) == hyd[h].pc = "postsDone" /\ ~hyd[h].failed /\ hyd'[h].pc # "postsDone"

\* C3: with excess = count - limit: nothing is removed when excess <= 0; exactly
\* excess posts, none favorited and none newer than a non-favorited post that is
\* kept, are removed when enough posts are not favorited; nothing is removed and
\* every post is published when fewer posts than excess are not favorited. The
\* posts not removed are what the run goes on to publish, in the fetched order.
C3_RetentionDecision ==
  [][\A h \in Hyd : FetchDecides(h) =>
       LET data == hyd[h].data
           excess == Len(data) - hyd[h].photoLimit
           nonFav == NonFavoriteIds(data)
           removed == Ids(hyd'[h].toDelete)
           ts(p) == data[TimestampOf(data, p)].timestamp
           kept == IF hyd'[h].pc = "idle" THEN posts' ELSE hyd'[h].remaining
       IN /\ excess <= 0 => removed = {} /\ hyd'[h].pc = "idle"
          /\ (excess > 0 /\ Cardinality(nonFav) >= excess) =>
               /\ Cardinality(removed) = excess
               /\ Len(hyd'[h].toDelete) = excess
               /\ removed \subseteq nonFav
               /\ \A r \in removed : \A k \in nonFav \ removed : ts(r) <= ts(k)
          /\ (excess > 0 /\ Cardinality(nonFav) < excess) =>
               removed = {} /\ hyd'[h].pc = "idle"
          /\ Len(kept) = Len(data) - Cardinality(removed)
          /\ \A i \in 1..Len(data) :
               data[i].id \notin removed =>
                 \E j \in 1..Len(kept) :
                   /\ kept[j].id = data[i].id
                   /\ kept[j].is_favorite = data[i].is_favorite
                   /\ j = i - Cardinality({m \in 1..i : data[m].id \in removed})
     ]_vars

\* a run removes a post although an older post is kept, because that one is a
\* favorite
C3_Witness ==
  \E h \in Hyd :
    /\ hyd[h].pc = "deleting"
    /\ \E i \in 1..Len(hyd[h].remaining) : \E j \in 1..Len(hyd[h].toDelete) :
         /\ hyd[h].remaining[i].is_favorite
         /\ hyd[h].remaining[i].timestamp < hyd[h].toDelete[j].timestamp

\* ------------------------------------------------------------------- C4
\* C4: at most one run of fetchPosts is in flight for a family at any time.
C4_OneHydrationInFlight ==
  \A h1, h2 \in Hyd :
    (h1 # h2 /\ hyd[h1].pc # "idle" /\ hyd[h2].pc # "idle") => hyd[h1].fam # hyd[h2].fam

\* ------------------------------------------------------------------- C5
\* C5: once another family is selected, the result of a run for the family
\* selected before is discarded: while a family is selected, a run publishes
\* only the feed of that family.
C5_StaleResultDiscarded ==
  [][\A h \in Hyd :
       (FetchPublished(h) /\ familyId \in Families) => hyd[h].fam = familyId]_vars

\* ------------------------------------------------------------------- C6
\* C6: a run that fails sets the error state, and no step of it has changed the
\* published posts or removed a post: only the last step of a run that succeeds
\* publishes.
C6_FailedHydrationLeavesPosts ==
  [][\A h \in Hyd :
       /\ (hyd'[h] # hyd[h] /\ ~FetchPublished(h)) => posts' = posts
       /\ FetchThrows(h) => /\ error' # NoError
                            /\ ~loading'
                            /\ dbPosts' = dbPosts
                            /\ hyd[h].toDelete = <<>>]_vars

\* a run has failed after another one had published a feed, which is still there
C6_Witness ==
  /\ error # NoError
  /\ posts # <<>>
  /\ \A h \in Hyd : hyd[h].pc = "idle"

\* ------------------------------------------------------------------- C7
LocalFavorite(postId) == Head(FindPost(postId)).is_favorite

ToggleUnknownPost ==
  /\ calls' # calls
  /\ familyId' = familyId /\ hyd' = hyd /\ cp' = cp
  /\ \A t \in Tog : tog'[t].pc = tog[t].pc

\* C8: a toggleFavorite call that fails (unknown post id, or backend write
\* error) reports failure and leaves the local feed as it is; a write error
\* leaves the backend row as it is, and a write is issued only for a post that
\* is in the local feed.
C8_FailedToggleLeavesFeed ==
  [][/\ \A t \in Tog :
          /\ (tog[t].pc = "updateDone" /\ tog[t].failed /\ tog'[t].pc = "idle") =>
               tog'[t].res = "err" /\ posts' = posts
          /\ (tog[t].pc = "update" /\ tog'[t].pc = "updateDone" /\ tog'[t].failed) =>
               dbPosts' = dbPosts
          /\ (tog[t].pc = "idle" /\ tog'[t].pc = "update") =>
               tog'[t].postId \in Ids(posts)
     /\ ToggleUnknownPost =>
          /\ posts' = posts
          /\ dbPosts' = dbPosts
          /\ \E t \in Tog : tog'[t].pc = "idle" /\ tog'[t].res = "err"
    ]_vars

\* a toggleFavorite call has failed while a feed is published
C8_Witness ==
  /\ posts # <<>>
  /\ \E t \in Tog : tog[t].pc = "idle" /\ tog[t].res = "err"

\* ------------------------------------------------------------------- C9
AllWrites == {"post", "links", "user"}

\* the createPost call returns or throws in this step
CreateCompletes == cp.pc # "idle" /\ cp'.pc = "idle"

\* C9: createPost returns the created post only if the insert of the post, the
\* insert of the links and the update of the user's row all succeeded, and
\* throws if any step failed; the user's row is written in the last step of a
\* call that succeeds (once in that call) and never by a call that fails.
C9_CreatePostAllOrFailure ==
  [][/\ CreateCompletes =>
          /\ cp'.res \in {"ok", "err"}
          /\ cp'.res = "ok" <=> cp'.writes = AllWrites
          /\ cp'.res = "ok" => cp'.newPost = cp.newPost /\ cp.newPost \in DOMAIN dbPosts
          /\ cp'.res = "ok" <=> ("user" \notin cp.writes /\ "user" \in cp'.writes)
          /\ cp'.res = "err" => dbUser' = dbUser /\ "user" \notin cp'.writes
     /\ (dbUser' # dbUser \/ ("user" \in cp'.writes /\ "user" \notin cp.writes)) =>
          /\ CreateCompletes
          /\ cp'.res = "ok"
          /\ dbUser' = [streak_count |-> cp.newStreakCount,
                        last_post_date |-> cp.today * HalfDaysPerDay]
    ]_vars

\* a createPost call has returned the new post and the user's row is written
C9_Witness ==
  /\ cp.pc = "idle" /\ cp.res = "ok" /\ cp.writes = AllWrites
  /\ dbUser.last_post_date # NoDate
  /\ dbUser.streak_count = MaxStreak + 1

\* ------------------------------------------------------------------ C10
\* instant t lies in calendar day d
InDay(t, d) == d * HalfDaysPerDay <= t /\ t < (d + 1) * HalfDaysPerDay

\* the streak the claim gives for a last post at instant last (or none), the
\* stored streak and the day of the clock
ClaimedStreak(last, streak, t) ==
  IF last = NoDate THEN 1
  ELSE LET dl == CHOOSE d \in 0..MaxNow : InDay(last, d)
           dt == CHOOSE d \in 0..MaxNow : InDay(t, d)
       IN IF dl = dt THEN streak
          ELSE IF dt = dl + 1 THEN streak + 1
          ELSE 1

C12_AggregateCounts ==
  [][\A h \in Hyd : FetchDecides(h) =>
       LET data == hyd[h].data
           views == IF hyd'[h].pc = "idle" THEN posts'
                    ELSE hyd'[h].remaining \o hyd'[h].toDelete
       IN \A i \in 1..Len(data) : \E j \in 1..Len(views) :
            LET r == data[i].reactions
                rows(type) == {k \in 1..Len(r) : r[k].reaction_type = type}
            IN /\ views[j].id = data[i].id
               /\ views[j].likes_count = Cardinality(rows("LIKE"))
               /\ views[j].comments_count = Cardinality(rows("COMMENT"))
               /\ views[j].user_has_liked <=>
                    \E k \in rows("LIKE") : r[k].user_id = ActingUser]_vars

\* a post is published with two likes of one user, who is not the acting user,
\* and one comment of the acting user
C12_Witness ==
  \E i \in 1..Len(posts) :
    /\ posts[i].likes_count = 2
    /\ posts[i].comments_count = 1
    /\ ~posts[i].user_has_liked
    /\ \A k \in 1..Len(posts[i].reactions) :
         posts[i].reactions[k].user_id = ActingUser <=>
           posts[i].reactions[k].reaction_type = "COMMENT"

\* ------------------------------------------------------------------ C13
\* C13: after a run of fetchPosts has failed, a run that succeeds brings the hook
\* to Ready: it publishes its feed, loading is false and error is null.
C13_RefreshRecovers ==
  [][\A h \in Hyd :
       (FetchPublished(h) /\ error # NoError) =>
          /\ Ids(posts') \subseteq Ids(hyd[h].data) \cup Ids(hyd[h].remaining)
          /\ ~loading'
          /\ error' = NoError]_vars

\* ------------------------------------------------------------------ C14
\* C14: when a run selects posts for eviction, a deletion request has been
\* issued for every selected post before the retained feed is published: the
\* run publishes nothing while a deletion is still to be issued, each deletion
\* step handles the first post left and leaves the others, and the feed is
\* published in the step in which the last deletion returns.
C14_DeletionsBeforePublish ==
  [][\A h \in Hyd :
       /\ hyd'[h].pc = "deleting" => posts' = posts /\ loading' = loading
       /\ (hyd[h].pc = "deleting" /\ hyd'[h] # hyd[h]) =>
            /\ DOMAIN dbPosts' \in {DOMAIN dbPosts,
                                    (DOMAIN dbPosts) \ {Head(hyd[h].toDelete).id}}
            /\ hyd'[h].pc = "deleting" =>
                 /\ hyd'[h].toDelete = Tail(hyd[h].toDelete)
                 /\ hyd'[h].remaining = hyd[h].remaining
            /\ hyd'[h].pc = "idle" =>
                 /\ Len(hyd[h].toDelete) = 1
                 /\ posts' = hyd[h].remaining]_vars

\* of two posts selected, the deletion of one has returned and the other is in
\* flight: nothing is published yet
C14_Witness ==
  \E h \in Hyd :
    /\ hyd[h].pc = "deleting"
    /\ Len(hyd[h].toDelete) = 1
    /\ Len(hyd[h].remaining) + 2 = MaxPosts
    /\ posts = <<>>

\* ------------------------------------------------------------------ C15
\* the deletion that returns to run h in this step has failed: the row is there
DeleteFails(h) ==
  /\ hyd[h].pc = "deleting"
  /\ hyd'[h] # hyd[h]
  /\ Head(hyd[h].toDelete).id \in DOMAIN dbPosts'

\* C15: a deletion that fails in the backend does not fail the run: the error
\* state is not set, the deletions left are issued next, and after the last
\* deletion the retained feed is published.
C15_DeletionFailureNotFatal ==
  [][\A h \in Hyd : DeleteFails(h) =>
       /\ error' = error
       /\ dbPosts' = dbPosts
       /\ Len(hyd[h].toDelete) > 1 =>
            /\ hyd'[h].pc = "deleting"
            /\ hyd'[h].toDelete = Tail(hyd[h].toDelete)
       /\ Len(hyd[h].toDelete) = 1 =>
            /\ hyd'[h].pc = "idle"
            /\ posts' = hyd[h].remaining
            /\ ~loading']_vars

\* a run has published the retained feed without an error although none of its
\* two deletions went through
C15_Witness ==
  /\ NoRunInFlight
  /\ error = NoError
  /\ ~loading
  /\ Len(posts) + 2 = MaxPosts
  /\ DOMAIN dbPosts = PostIds

FetchStarts(h) == hyd[h].pc = "idle" /\ hyd'[h].pc # "idle"

\* C17: when the family changes from A to B, the subscription for A is cancelled
\* before the one for B is created: only the selected family is subscribed, and
\* a notification for A after the switch starts no run of fetchPosts for A.
C17_UnsubscribeBeforeResubscribe ==
  [][/\ familyId' \in Families => subs' = {familyId'}
     /\ \A h \in Hyd :
          (FetchStarts(h) /\ familyId' \in Families) => hyd'[h].fam = familyId']_vars

\* ------------------------------------------------------------------ C18
\* C18: if every backend call returns in the end, every run of fetchPosts that
\* starts completes, and when it has completed loading is false and the hook is
\* Ready (the run has published its feed) or Errored (error is set).
C18_HydrationCompletes ==
  /\ \A h \in Hyd :
       (hyd[h].pc # "idle") ~>
          (hyd[h].pc = "idle" /\ ~loading /\ (posts # <<>> \/ error # NoError))
  /\ [][\A h \in Hyd :
          /\ FetchCompletes(h) => ~loading'
          /\ FetchThrows(h) => error' # NoError
          /\ FetchPublished(h) => /\ posts' # <<>>
                                  /\ posts' \in {hyd[h].remaining,
                                                 processedPosts(hyd[h].data, hyd[h].fam)}
     ]_vars

\* every run that was started has completed, with and without deletions
C18_Witness ==
  /\ calls = MaxCalls
  /\ NoRunInFlight
  /\ ~loading
  /\ DOMAIN dbPosts # PostIds

\* ------------------------------------------------------------------ C19
\* toggleFavorite call t returns without error in this step
ToggleSucceeds(t) == tog[t].pc = "updateDone" /\ ~tog[t].failed /\ tog'[t].pc = "idle"

\* C19: after a toggleFavorite call that reports success, the local is_favorite
\* of the post is the value that call wrote to the backend, also when another
\* call or a run of fetchPosts came in between.
C19_LocalMatchesWritten ==
  [][\A t \in Tog : ToggleSucceeds(t) =>
       \A i \in 1..Len(posts') :
         posts'[i].id = tog[t].postId => posts'[i].is_favorite = tog[t].value]_vars

\* ------------------------------------------------------------------ C20
\* C20: with runs of fetchPosts for one family overlapping, the published feed
\* is never replaced by the result of a run whose read of the backend is older
\* than the read under the feed that is published: a run that a later reader
\* has overtaken publishes nothing else than what is there.
C20_NoStalePublish ==
  [][\A h \in Hyd :
       (FetchPublished(h) /\ readOrder[h].overtaken) => posts' = posts]_vars

====
